---- MODULE Spec2Model ----
(***************************************************************************)
(* Model of the stable-diffusion sample notebooks:                         *)
(*   01_Simple_Pytorch_SD.ipynb      (nb = "01")                           *)
(*   the OpenVINO text-to-image notebook, src/unnamed/part_001 (nb = "02") *)
(*   03_ControlNet_Generate.ipynb    (nb = "03")                           *)
(* and of a direct call optimize_pipeline(pipeline) on an arbitrary        *)
(* pipeline object (nb = "call").                                          *)
(*                                                                         *)
(* A run executes the code cells top to bottom, one statement at a time.   *)
(* Calls into external libraries are nondeterministic over the outcomes    *)
(* the library can produce: a result, or an exception.                     *)
(***************************************************************************)
EXTENDS Integers, Sequences, FiniteSets, TLC

\* ------------------------------------------------------------------ bounds

\* Number of names in dir(pipeline) that the model distinguishes.
NumAttrs == 3

\* Width, in pixels, of each panel image (images are one pixel high).
PanelW == 1

\* --------------------------------------------------------------- constants

\* Position of "text_encoder" in the sorted dir(pipeline): names sort before
\* it ("controlnet") and after it ("unet", "vae").
TextEncoderPos == 2

Slots == 1..NumAttrs

\* torch_dtype values the notebooks load checkpoints with.
Dtypes == {"bfloat16", "float16"}

Modes == {"train", "eval"}

\* How a name of dir(pipeline) behaves under getattr / setattr:
\*   "module"     plain attribute bound to an nn.Module
\*   "romodule"   property returning an nn.Module, without a setter
\*   "value"      bound to something that is not an nn.Module (None, scheduler)
\*   "unreadable" listed by dir() but getattr raises AttributeError
\*   "absent"     not listed by dir() and getattr raises AttributeError
Kinds == {"module", "romodule", "value", "unreadable", "absent"}

ModuleKinds == {"module", "romodule"}

PipelineObj == "pipeline"

\* A second pipeline object, equal in content to the first.
PipelineCopy == "copy of pipeline"

\* A variable, or a return value, not bound yet.
Unbound == "unbound"

NoObj == <<"None", 0>>

NoCall == [made |-> FALSE]

NoExc == [type |-> "none", at |-> "none"]

NoWidgets == [made |-> FALSE]

NoInvoke == [made |-> FALSE]

\* An argument given in a call, and one left to the callee's default.
Passed(v) == <<"passed", v>>

Default == <<"default">>

Unseeded == <<"unseeded">>

Seeded(v) == <<"seeded", v>>

\* Object identities: Orig(s) is the module bound to slot s on entry,
\* Wrapped(s) a distinct object ipex.optimize may hand back for it.
Orig(s) == <<"module", s>>

Wrapped(s) == <<"optimized", s>>

ObjIds == {"module", "optimized"} \X (1..NumAttrs)

VARIABLES
  nb,        \* which program runs
  pc,        \* index of the next statement in Program(nb)
  exc,       \* the exception that ended the run, or NoExc
  log,       \* statements executed so far, in order
  kind,      \* pipeline: slot -> Kinds
  attrs,     \* pipeline: slot -> object id bound to it (NoObj if none)
  heap,      \* object id -> [mode, dtype, optimized]
  pos,       \* optimize_pipeline: index into dir(pipeline) of the loop
  skipped,   \* optimize_pipeline: slots whose AttributeError was swallowed
  calls,     \* optimize_pipeline: slot -> the ipex.optimize call made for it
  entry,     \* optimize_pipeline: attrs and heap as they were on entry
  retval,    \* optimize_pipeline: the object returned
  pipeVar,   \* the object the caller's variable `pipe` is bound to
  modelDir,  \* 02: MODEL_DIR exists on disk
  files,     \* names of the files written to the working directory
  widgets,   \* 02: the values of the text_prompt, num_steps and seed widgets
  rng,       \* 02: the seed numpy's global generator was last seeded with
  invoked,   \* the arguments of the inference call, once made
  original_image, canny_image, output,   \* 03: the three panel images
  image_grid, image_grid_np,             \* 03: the grid, as image and array
  house_png  \* 03: the picture a reader decodes from house.png

pipeVars == <<kind, attrs, heap>>

sweepVars == <<pos, skipped, calls, entry, retval>>

nbVars == <<modelDir, files, widgets, rng, invoked>>

imgVars == <<original_image, canny_image, output, image_grid, image_grid_np, house_png>>

vars == <<nb, pc, exc, log, kind, attrs, heap, pos, skipped, calls, entry, retval, pipeVar,
          modelDir, files, widgets, rng, invoked,
          original_image, canny_image, output, image_grid, image_grid_np, house_png>>

\* ------------------------------------------------------------- programs

ProgramCall == <<"optimize_pipeline">>

\* Variant: the inference call is made before the move to the device.
Program01InferFirst ==
  <<"env_setup", "pip_install", "import_ipex", "from_pretrained", "infer",
    "to_xpu", "display">>

\* The statements of 01_Simple_Pytorch_SD.ipynb, cell after cell.
Program01 ==
  <<"env_setup", "pip_install", "import_ipex", "from_pretrained", "to_xpu",
    "infer", "display">>

\* The statements of the OpenVINO notebook, cell after cell.
Program02 ==
  <<"env_setup", "pip_install", "fetch_notebook_utils", "device_widget",
    "if_model_dir", "from_pretrained_export", "save_pretrained",
    "from_pretrained_local", "compile", "make_widgets", "print_settings",
    "np_random_seed", "infer", "save", "display">>

\* Variant: pipe.to("xpu") is left out.
Program03NoToXpu ==
  <<"import_ipex", "import_diffusers", "load_image", "canny",
    "image_tensor_to_xpu", "controlnet_from_pretrained", "from_pretrained",
    "set_scheduler", "optimize_pipeline", "infer",
    "make_image_grid", "np_array", "imwrite">>

\* The statements of 03_ControlNet_Generate.ipynb, cell after cell.
Program03 ==
  <<"import_ipex", "import_diffusers", "load_image", "canny",
    "image_tensor_to_xpu", "controlnet_from_pretrained", "from_pretrained",
    "set_scheduler", "to_xpu", "optimize_pipeline", "infer",
    "make_image_grid", "np_array", "imwrite">>

Program(n) ==
  CASE n = "01" -> Program01
    [] n = "02" -> Program02
    [] n = "03" -> Program03
    [] OTHER -> ProgramCall

\* Index of statement s in program p (0 if it is not there).
IndexOf(p, s) ==
  IF \E i \in 1..Len(p) : p[i] = s
  THEN CHOOSE i \in 1..Len(p) : p[i] = s
  ELSE 0

Stmt == IF pc \in 1..Len(Program(nb)) THEN Program(nb)[pc] ELSE "end"

Running == exc = NoExc /\ pc <= Len(Program(nb))

Done == exc = NoExc /\ pc = Len(Program(nb)) + 1

\* ------------------------------------------------------ optimize_pipeline

RECURSIVE DirFrom(_, _)
\* dir(pipeline) from slot s on: the names that exist, in sorted order.
DirFrom(k, s) ==
  IF s > NumAttrs THEN <<>>
  ELSE IF k[s] = "absent" THEN DirFrom(k, s + 1)
  ELSE <<s>> \o DirFrom(k, s + 1)

Dir(k) == DirFrom(k, 1)

\* pipeline.text_encoder.dtype can be read: text_encoder is a module.
TextEncoderUsable == kind[TextEncoderPos] \in ModuleKinds

\* Variant: the .eval() call is left out.
EvalModuleLeftOut(h, m) == h

\* nn.Module.eval(): the module itself, switched to eval mode.
EvalModule(h, m) == [h EXCEPT ![m].mode = "eval"]

\* Variant: the optimized module is left in float32 instead of the dtype
\* passed.
IpexOptimizeIgnoresDtype(h, m, d, r) ==
  [h EXCEPT ![m] = [mode |-> h[m].mode, dtype |-> "float32", optimized |-> TRUE],
            ![r] = [mode |-> h[m].mode, dtype |-> "float32", optimized |-> TRUE]]

\* ipex.optimize(m, dtype=d, inplace=True), when it succeeds: m is optimized
\* and cast to d in place; r is the object handed back (m or a wrapper).
IpexOptimize(h, m, d, r) ==
  [h EXCEPT ![m] = [mode |-> h[m].mode, dtype |-> d, optimized |-> TRUE],
            ![r] = [mode |-> h[m].mode, dtype |-> d, optimized |-> TRUE]]

\* The record of one ipex.optimize call.
IpexCall(m, h, d, res, raised) ==
  [made |-> TRUE, arg |-> m, mode |-> h[m].mode, dtype |-> d,
   inplace |-> TRUE, result |-> res, raised |-> raised]

InSweep == Running /\ Stmt = "optimize_pipeline" /\ pos >= 1

\* line 115 / line 160: optimize_pipeline is entered.
OptEnter ==
  /\ Running
  /\ Stmt = "optimize_pipeline"
  /\ pos = 0
  /\ pos' = 1
  /\ entry' = [attrs |-> attrs, heap |-> heap]
  /\ UNCHANGED <<nb, pc, exc, log, pipeVars, skipped, calls, retval, pipeVar, nbVars, imgVars>>

Cur == Dir(kind)[pos]

InLoop == InSweep /\ pos <= Len(Dir(kind))

\* Variant: no try/except around the loop body, the AttributeError of
\* getattr leaves optimize_pipeline.
OptGetattrRaises ==
  /\ InLoop
  /\ kind[Cur] = "unreadable"
  /\ exc' = [type |-> "AttributeError", at |-> "getattr"]
  /\ UNCHANGED <<nb, pc, log, pipeVars, sweepVars, pipeVar, nbVars, imgVars>>

\* line 128: getattr(pipeline, attr) raises AttributeError; swallowed.
OptSkipGetattr ==
  /\ InLoop
  /\ kind[Cur] = "unreadable"
  /\ skipped' = skipped \cup {Cur}
  /\ pos' = pos + 1
  /\ UNCHANGED <<nb, pc, exc, log, pipeVars, calls, entry, retval, pipeVar, nbVars, imgVars>>

\* Variant: the isinstance test is missing, the attribute is rebound.
OptNotModuleRebinds ==
  /\ InLoop
  /\ kind[Cur] = "value"
  /\ attrs' = [attrs EXCEPT ![Cur] = Wrapped(Cur)]
  /\ pos' = pos + 1
  /\ UNCHANGED <<nb, pc, exc, log, kind, heap, skipped, calls, entry, retval, pipeVar, nbVars, imgVars>>

\* line 128: the attribute is not an nn.Module; nothing is done.
OptNotModule ==
  /\ InLoop
  /\ kind[Cur] = "value"
  /\ pos' = pos + 1
  /\ UNCHANGED <<nb, pc, exc, log, pipeVars, skipped, calls, entry, retval, pipeVar, nbVars, imgVars>>

\* Variant: the dtype is read outside the try, its AttributeError leaves
\* optimize_pipeline.
OptDtypeRaises ==
  /\ InLoop
  /\ kind[Cur] \in ModuleKinds
  /\ ~TextEncoderUsable
  /\ heap' = EvalModule(heap, attrs[Cur])
  /\ exc' = [type |-> "AttributeError", at |-> "text_encoder.dtype"]
  /\ UNCHANGED <<nb, pc, log, kind, attrs, sweepVars, pipeVar, nbVars, imgVars>>

\* lines 133-134: .eval() has run, then pipeline.text_encoder.dtype raises
\* AttributeError; swallowed.
OptSkipDtype ==
  /\ InLoop
  /\ kind[Cur] \in ModuleKinds
  /\ ~TextEncoderUsable
  /\ heap' = EvalModule(heap, attrs[Cur])
  /\ skipped' = skipped \cup {Cur}
  /\ pos' = pos + 1
  /\ UNCHANGED <<nb, pc, exc, log, kind, attrs, calls, entry, retval, pipeVar, nbVars, imgVars>>

\* lines 129-137: ipex.optimize succeeds and setattr rebinds the attribute.
OptReplace ==
  /\ InLoop
  /\ kind[Cur] = "module"
  /\ TextEncoderUsable
  /\ \E r \in {attrs[Cur], Wrapped(Cur)} :
       LET m == attrs[Cur]
           h1 == EvalModule(heap, m)
           d == h1[attrs[TextEncoderPos]].dtype
       IN /\ heap' = IpexOptimize(h1, m, d, r)
          /\ calls' = [calls EXCEPT ![Cur] = IpexCall(m, h1, d, r, "none")]
          /\ attrs' = [attrs EXCEPT ![Cur] = r]
  /\ pos' = pos + 1
  /\ UNCHANGED <<nb, pc, exc, log, kind, skipped, entry, retval, pipeVar, nbVars, imgVars>>

\* lines 129-138: ipex.optimize succeeds, setattr raises AttributeError
\* (no setter); swallowed.
OptSkipSetattr ==
  /\ InLoop
  /\ kind[Cur] = "romodule"
  /\ TextEncoderUsable
  /\ \E r \in {attrs[Cur], Wrapped(Cur)} :
       LET m == attrs[Cur]
           h1 == EvalModule(heap, m)
           d == h1[attrs[TextEncoderPos]].dtype
       IN /\ heap' = IpexOptimize(h1, m, d, r)
          /\ calls' = [calls EXCEPT ![Cur] = IpexCall(m, h1, d, r, "none")]
  /\ skipped' = skipped \cup {Cur}
  /\ pos' = pos + 1
  /\ UNCHANGED <<nb, pc, exc, log, kind, attrs, entry, retval, pipeVar, nbVars, imgVars>>

\* lines 132-138: ipex.optimize raises AttributeError; swallowed.
OptSkipIpex ==
  /\ InLoop
  /\ kind[Cur] \in ModuleKinds
  /\ TextEncoderUsable
  /\ LET m == attrs[Cur]
         h1 == EvalModule(heap, m)
         d == h1[attrs[TextEncoderPos]].dtype
     IN /\ heap' = h1
        /\ calls' = [calls EXCEPT ![Cur] = IpexCall(m, h1, d, NoObj, "AttributeError")]
  /\ skipped' = skipped \cup {Cur}
  /\ pos' = pos + 1
  /\ UNCHANGED <<nb, pc, exc, log, kind, attrs, entry, retval, pipeVar, nbVars, imgVars>>

\* Variant: before the exception leaves, the attributes rebound so far are
\* put back as they were on entry.
OptRaiseRollsBack ==
  /\ InLoop
  /\ kind[Cur] \in ModuleKinds
  /\ TextEncoderUsable
  /\ LET m == attrs[Cur]
         h1 == EvalModule(heap, m)
         d == h1[attrs[TextEncoderPos]].dtype
     IN /\ heap' = h1
        /\ calls' = [calls EXCEPT ![Cur] = IpexCall(m, h1, d, NoObj, "RuntimeError")]
  /\ attrs' = entry.attrs
  /\ exc' = [type |-> "RuntimeError", at |-> "ipex.optimize"]
  /\ UNCHANGED <<nb, pc, log, kind, pos, skipped, entry, retval, pipeVar, nbVars, imgVars>>

\* lines 132-138: ipex.optimize raises an exception that is not an
\* AttributeError; it leaves optimize_pipeline.
OptRaise ==
  /\ InLoop
  /\ kind[Cur] \in ModuleKinds
  /\ TextEncoderUsable
  /\ LET m == attrs[Cur]
         h1 == EvalModule(heap, m)
         d == h1[attrs[TextEncoderPos]].dtype
     IN /\ heap' = h1
        /\ calls' = [calls EXCEPT ![Cur] = IpexCall(m, h1, d, NoObj, "RuntimeError")]
  /\ exc' = [type |-> "RuntimeError", at |-> "ipex.optimize"]
  /\ UNCHANGED <<nb, pc, log, kind, attrs, pos, skipped, entry, retval, pipeVar, nbVars, imgVars>>

\* Variant: the function returns a copy of the pipeline.
OptReturnCopy ==
  /\ InSweep
  /\ pos = Len(Dir(kind)) + 1
  /\ retval' = PipelineCopy
  /\ pipeVar' = PipelineCopy
  /\ pos' = 0
  /\ pc' = pc + 1
  /\ log' = Append(log, "optimize_pipeline")
  /\ UNCHANGED <<nb, exc, pipeVars, skipped, calls, entry, nbVars, imgVars>>

\* line 140 (and line 160 for the notebook): return pipeline.
OptReturn ==
  /\ InSweep
  /\ pos = Len(Dir(kind)) + 1
  /\ retval' = PipelineObj
  /\ pipeVar' = PipelineObj
  /\ pos' = 0
  /\ pc' = pc + 1
  /\ log' = Append(log, "optimize_pipeline")
  /\ UNCHANGED <<nb, exc, pipeVars, skipped, calls, entry, nbVars, imgVars>>

Sweep ==
  \/ OptEnter
  \/ OptSkipGetattr
  \/ OptNotModule
  \/ OptSkipDtype
  \/ OptReplace
  \/ OptSkipSetattr
  \/ OptSkipIpex
  \/ OptRaise
  \/ OptReturn

\* ------------------------------------------------------- notebook cells

At(s) == Running /\ Stmt = s

\* The statement at pc has run; control moves to the next one.
Advance ==
  /\ log' = Append(log, Stmt)
  /\ pc' = pc + 1

\* Slider and text values the user can set in the OpenVINO notebook.
DefaultSteps == 20

MinSteps == 1

MaxSteps == 50

DefaultSeed == 42

MinSeed == 0

Prompts == {"sample_text", "user_text"}

StepChoices == {MinSteps, DefaultSteps, MaxSteps}

SeedChoices == {MinSeed, DefaultSeed}

WidgetValues ==
  [made : {TRUE}, text_prompt : Prompts, num_steps : StepChoices, seed : SeedChoices]

\* Pixel values: each channel is dark or bright.
Levels == {0, 255}

\* (R, G, B) triples the panel images are drawn from: black, white, and two
\* colours whose red and blue channels differ.
Pixels == {<<0, 0, 0>>, <<255, 255, 255>>, <<255, 0, 0>>, <<0, 0, 255>>}

Images == [1..PanelW -> Pixels]

\* sys.path.append(user_bin_path); print(sys.path)
EnvSetup ==
  /\ At("env_setup")
  /\ Advance
  /\ UNCHANGED <<nb, exc, pipeVars, sweepVars, pipeVar, nbVars, imgVars>>

\* !{sys.executable} -m pip install ...: a shell command, which raises nothing.
PipInstall ==
  /\ At("pip_install")
  /\ Advance
  /\ UNCHANGED <<nb, exc, pipeVars, sweepVars, pipeVar, nbVars, imgVars>>

\* import torch, ipex (and the device name) / import diffusers, PIL, cv2, numpy
ImportLibs ==
  /\ At("import_ipex") \/ At("import_diffusers")
  /\ Advance
  /\ UNCHANGED <<nb, exc, pipeVars, sweepVars, pipeVar, nbVars, imgVars>>

\* 01: pipe = StableDiffusionPipeline.from_pretrained(path, fp16)
FromPretrained01 ==
  /\ nb = "01"
  /\ At("from_pretrained")
  /\ pipeVar' = PipelineObj
  /\ Advance
  /\ UNCHANGED <<nb, exc, pipeVars, sweepVars, nbVars, imgVars>>

\* pipe = pipe.to("xpu"): the pipeline itself, moved to the device.
ToXpu ==
  /\ At("to_xpu")
  /\ pipeVar' = pipeVar
  /\ Advance
  /\ UNCHANGED <<nb, exc, pipeVars, sweepVars, nbVars, imgVars>>

\* 01: result = pipe("A cat riding a surfboard on a big wave")
Infer01 ==
  /\ nb = "01"
  /\ At("infer")
  /\ invoked' = [made |-> TRUE,
                 prompt |-> "A cat riding a surfboard on a big wave",
                 num_inference_steps |-> Default, guidance_scale |-> Default,
                 generator |-> Default, image |-> Default]
  /\ Advance
  /\ UNCHANGED <<nb, exc, pipeVars, sweepVars, pipeVar, modelDir, files, widgets, rng, imgVars>>

\* display(image) / display(final_image): nothing is written.
Display ==
  /\ At("display")
  /\ Advance
  /\ UNCHANGED <<nb, exc, pipeVars, sweepVars, pipeVar, nbVars, imgVars>>

\* 02: requests.get(...); open("notebook_utils.py", "w").write(r.text); import
FetchNotebookUtils ==
  /\ At("fetch_notebook_utils")
  /\ files' = files \cup {"notebook_utils.py"}
  /\ Advance
  /\ UNCHANGED <<nb, exc, pipeVars, sweepVars, pipeVar, modelDir, widgets, rng, invoked, imgVars>>

\* 02: device = device_widget()
DeviceWidget ==
  /\ At("device_widget")
  /\ Advance
  /\ UNCHANGED <<nb, exc, pipeVars, sweepVars, pipeVar, nbVars, imgVars>>

\* 02: if not MODEL_DIR.exists(): ... else: ...
IfModelDir ==
  /\ At("if_model_dir")
  /\ log' = Append(log, Stmt)
  /\ pc' = IF modelDir THEN IndexOf(Program02, "from_pretrained_local") ELSE pc + 1
  /\ UNCHANGED <<nb, exc, pipeVars, sweepVars, pipeVar, nbVars, imgVars>>

\* 02: ov_pipe = OVStableDiffusionPipeline.from_pretrained(MODEL_ID, export=True, ...)
FromPretrainedExport ==
  /\ At("from_pretrained_export")
  /\ pipeVar' = PipelineObj
  /\ Advance
  /\ UNCHANGED <<nb, exc, pipeVars, sweepVars, nbVars, imgVars>>

\* Variant: no else, the pipeline is loaded again from MODEL_DIR after export.
SavePretrainedThenReload ==
  /\ At("save_pretrained")
  /\ modelDir' = TRUE
  /\ files' = files \cup {"diffusion_pipeline"}
  /\ Advance
  /\ UNCHANGED <<nb, exc, pipeVars, sweepVars, pipeVar, widgets, rng, invoked, imgVars>>

\* 02: ov_pipe.save_pretrained(MODEL_DIR); the else branch is passed over.
SavePretrained ==
  /\ At("save_pretrained")
  /\ modelDir' = TRUE
  /\ files' = files \cup {"diffusion_pipeline"}
  /\ log' = Append(log, Stmt)
  /\ pc' = IndexOf(Program02, "compile")
  /\ UNCHANGED <<nb, exc, pipeVars, sweepVars, pipeVar, widgets, rng, invoked, imgVars>>

\* 02: ov_pipe = OVStableDiffusionPipeline.from_pretrained(MODEL_DIR, ...)
FromPretrainedLocal ==
  /\ At("from_pretrained_local")
  /\ pipeVar' = PipelineObj
  /\ Advance
  /\ UNCHANGED <<nb, exc, pipeVars, sweepVars, nbVars, imgVars>>

\* 02: ov_pipe.compile()
Compile ==
  /\ At("compile")
  /\ Advance
  /\ UNCHANGED <<nb, exc, pipeVars, sweepVars, pipeVar, nbVars, imgVars>>

\* 02: text_prompt, num_steps and seed widgets, with their initial values.
MakeWidgets ==
  /\ At("make_widgets")
  /\ widgets' = [made |-> TRUE, text_prompt |-> "sample_text",
                 num_steps |-> DefaultSteps, seed |-> DefaultSeed]
  /\ Advance
  /\ UNCHANGED <<nb, exc, pipeVars, sweepVars, pipeVar, modelDir, files, rng, invoked, imgVars>>

\* 02: between two cells the user moves a slider or edits the text.
UserEdit ==
  /\ Running
  /\ Stmt \in {"print_settings", "np_random_seed", "display"}
  /\ widgets.made
  /\ widgets' \in WidgetValues
  /\ widgets' # widgets
  /\ UNCHANGED <<nb, pc, exc, log, pipeVars, sweepVars, pipeVar, modelDir, files, rng, invoked, imgVars>>

\* 02: print("Pipeline settings") ...
PrintSettings ==
  /\ At("print_settings")
  /\ Advance
  /\ UNCHANGED <<nb, exc, pipeVars, sweepVars, pipeVar, nbVars, imgVars>>

\* 02: np.random.seed(seed.value)
NpRandomSeed ==
  /\ At("np_random_seed")
  /\ rng' = Seeded(widgets.seed)
  /\ Advance
  /\ UNCHANGED <<nb, exc, pipeVars, sweepVars, pipeVar, modelDir, files, widgets, invoked, imgVars>>

\* Variant: the call leaves the step count to the pipeline's default.
Infer02DefaultSteps ==
  /\ nb = "02"
  /\ At("infer")
  /\ invoked' = [made |-> TRUE,
                 prompt |-> widgets.text_prompt,
                 num_inference_steps |-> Default,
                 guidance_scale |-> Default,
                 generator |-> Default, image |-> Default]
  /\ Advance
  /\ UNCHANGED <<nb, exc, pipeVars, sweepVars, pipeVar, modelDir, files, widgets, rng, imgVars>>

\* 02: result = ov_pipe(text_prompt.value, num_inference_steps=num_steps.value)
Infer02 ==
  /\ nb = "02"
  /\ At("infer")
  /\ invoked' = [made |-> TRUE,
                 prompt |-> widgets.text_prompt,
                 num_inference_steps |-> Passed(widgets.num_steps),
                 guidance_scale |-> Default,
                 generator |-> Default, image |-> Default]
  /\ Advance
  /\ UNCHANGED <<nb, exc, pipeVars, sweepVars, pipeVar, modelDir, files, widgets, rng, imgVars>>

\* Variant: the save line is commented out, as in the PyTorch notebook.
Save02CommentedOut ==
  /\ At("save")
  /\ Advance
  /\ UNCHANGED <<nb, exc, pipeVars, sweepVars, pipeVar, nbVars, imgVars>>

\* 02: final_image.save("result.png")
Save02 ==
  /\ At("save")
  /\ files' = files \cup {"result.png"}
  /\ Advance
  /\ UNCHANGED <<nb, exc, pipeVars, sweepVars, pipeVar, modelDir, widgets, rng, invoked, imgVars>>

\* 03: original_image = load_image(url).resize((1024, 1024))
LoadImage ==
  /\ At("load_image")
  /\ original_image' \in Images
  /\ Advance
  /\ UNCHANGED <<nb, exc, pipeVars, sweepVars, pipeVar, nbVars,
                 canny_image, output, image_grid, image_grid_np, house_png>>

\* image[:, :, None]; np.concatenate([image, image, image], axis=2):
\* the one-channel edge map e, repeated in the three channels.
ThreeChannels(e) == [i \in DOMAIN e |-> <<e[i], e[i], e[i]>>]

\* 03: cv2.Canny(image, 100, 200), three channels, Image.fromarray
Canny ==
  /\ At("canny")
  /\ \E e \in [1..PanelW -> Levels] : canny_image' = ThreeChannels(e)
  /\ Advance
  /\ UNCHANGED <<nb, exc, pipeVars, sweepVars, pipeVar, nbVars,
                 original_image, output, image_grid, image_grid_np, house_png>>

\* 03: image_tensor = torch.tensor(np.array(canny_image)).to("xpu")
ImageTensorToXpu ==
  /\ At("image_tensor_to_xpu")
  /\ Advance
  /\ UNCHANGED <<nb, exc, pipeVars, sweepVars, pipeVar, nbVars, imgVars>>

\* 03: controlnet = ControlNetModel.from_pretrained(..., torch.bfloat16)
ControlnetFromPretrained ==
  /\ At("controlnet_from_pretrained")
  /\ Advance
  /\ UNCHANGED <<nb, exc, pipeVars, sweepVars, pipeVar, nbVars, imgVars>>

\* The attributes of a loaded StableDiffusionControlNetPipeline: submodules
\* (controlnet, text_encoder, unet, ...), properties that cannot be read
\* before the first inference call, and components that are not modules.
LoadedKind(s) ==
  IF s = TextEncoderPos THEN "module"
  ELSE IF s % 3 = 1 THEN "module"
  ELSE IF s % 3 = 0 THEN "unreadable"
  ELSE "value"

InitHeap(m0, d0) ==
  [o \in ObjIds |-> [mode |-> m0, dtype |-> d0, optimized |-> FALSE]]

InitAttrs(k) == [s \in Slots |-> IF k[s] \in ModuleKinds THEN Orig(s) ELSE NoObj]

\* 03: pipe = StableDiffusionControlNetPipeline.from_pretrained(
\*        ..., controlnet=controlnet, torch_dtype=torch.bfloat16)
FromPretrained03 ==
  /\ nb = "03"
  /\ At("from_pretrained")
  /\ pipeVar' = PipelineObj
  /\ kind' = [s \in Slots |-> LoadedKind(s)]
  /\ attrs' = InitAttrs(kind')
  /\ heap' = InitHeap("eval", "bfloat16")
  /\ Advance
  /\ UNCHANGED <<nb, exc, sweepVars, nbVars, imgVars>>

\* 03: pipe.scheduler = UniPCMultistepScheduler.from_config(...)
SetScheduler ==
  /\ At("set_scheduler")
  /\ Advance
  /\ UNCHANGED <<nb, exc, pipeVars, sweepVars, pipeVar, nbVars, imgVars>>

\* 03: output = pipe("Vivid Watercolor", image=canny_image).images[0]
Infer03 ==
  /\ nb = "03"
  /\ At("infer")
  /\ invoked' = [made |-> TRUE,
                 prompt |-> "Vivid Watercolor",
                 num_inference_steps |-> Default, guidance_scale |-> Default,
                 generator |-> Default, image |-> Passed(canny_image)]
  /\ output' \in Images
  /\ Advance
  /\ UNCHANGED <<nb, exc, pipeVars, sweepVars, pipeVar, modelDir, files, widgets, rng,
                 original_image, canny_image, image_grid, image_grid_np, house_png>>

\* diffusers.utils.make_image_grid(images, rows=1, cols): a picture cols
\* panels wide, panel i holding images[i], each as wide as images[1].
MakeImageGridOp(images, cols) ==
  LET w == Len(images[1])
  IN [x \in 1..(cols * w) |-> images[((x - 1) \div w) + 1][((x - 1) % w) + 1]]

\* 03: image_grid = make_image_grid([original_image, canny_image, output], rows=1, cols=3)
MakeImageGrid ==
  /\ At("make_image_grid")
  /\ image_grid' = MakeImageGridOp(<<original_image, canny_image, output>>, 3)
  /\ Advance
  /\ UNCHANGED <<nb, exc, pipeVars, sweepVars, pipeVar, nbVars,
                 original_image, canny_image, output, image_grid_np, house_png>>

\* np.array(PIL image): one (R, G, B) triple per pixel, in that order.
NpArrayOp(img) == [x \in DOMAIN img |-> <<img[x][1], img[x][2], img[x][3]>>]

\* 03: image_grid_np = np.array(image_grid)
NpArray ==
  /\ At("np_array")
  /\ image_grid_np' = NpArrayOp(image_grid)
  /\ Advance
  /\ UNCHANGED <<nb, exc, pipeVars, sweepVars, pipeVar, nbVars,
                 original_image, canny_image, output, image_grid, house_png>>

\* cv2.imwrite(path, arr) takes each triple of arr as (B, G, R); the picture
\* in the file, read back as (R, G, B) triples.
ImwriteOp(arr) == [x \in DOMAIN arr |-> <<arr[x][3], arr[x][2], arr[x][1]>>]

\* 03: cv2.imwrite("house.png", image_grid_np); the returned flag is dropped.
Imwrite ==
  /\ At("imwrite")
  /\ \E written \in BOOLEAN :
       IF written
       THEN /\ files' = files \cup {"house.png"}
            /\ house_png' = ImwriteOp(image_grid_np)
       ELSE UNCHANGED <<files, house_png>>
  /\ Advance
  /\ UNCHANGED <<nb, exc, pipeVars, sweepVars, pipeVar, modelDir, widgets, rng, invoked,
                 original_image, canny_image, output, image_grid, image_grid_np>>

\* The statements that call into an external library which can raise.
ExternalStmts ==
  {"import_ipex", "import_diffusers", "from_pretrained", "to_xpu", "infer",
   "display", "fetch_notebook_utils", "device_widget", "from_pretrained_export",
   "save_pretrained", "from_pretrained_local", "compile", "make_widgets",
   "save", "load_image", "canny", "image_tensor_to_xpu",
   "controlnet_from_pretrained", "set_scheduler", "make_image_grid",
   "np_array", "imwrite"}

\* No cell has a try statement: an exception raised by the library call of
\* the statement at pc ends the run there.
ExternalRaise ==
  /\ Running
  /\ Stmt \in ExternalStmts
  /\ exc' = [type |-> "RuntimeError", at |-> Stmt]
  /\ UNCHANGED <<nb, pc, log, pipeVars, sweepVars, pipeVar, nbVars, imgVars>>

Cells ==
  \/ EnvSetup
  \/ PipInstall
  \/ ImportLibs
  \/ FromPretrained01
  \/ ToXpu
  \/ Infer01
  \/ Display
  \/ FetchNotebookUtils
  \/ DeviceWidget
  \/ IfModelDir
  \/ FromPretrainedExport
  \/ SavePretrained
  \/ FromPretrainedLocal
  \/ Compile
  \/ MakeWidgets
  \/ UserEdit
  \/ PrintSettings
  \/ NpRandomSeed
  \/ Infer02
  \/ Save02
  \/ LoadImage
  \/ Canny
  \/ ImageTensorToXpu
  \/ ControlnetFromPretrained
  \/ FromPretrained03
  \/ SetScheduler
  \/ Infer03
  \/ MakeImageGrid
  \/ NpArray
  \/ Imwrite
  \/ ExternalRaise

\* ------------------------------------------------------------------ Init

\* optimize_pipeline(pipeline) called on any pipeline object.
InitCall ==
  /\ nb = "call"
  /\ pc = 1
  /\ exc = NoExc
  /\ log = <<>>
  /\ kind \in [Slots -> Kinds]
  /\ \A s \in Slots : kind[s] = "absent" => s = TextEncoderPos
  /\ attrs = InitAttrs(kind)
  /\ \E m0 \in Modes, d0 \in Dtypes, dT \in Dtypes :
       heap = [InitHeap(m0, d0) EXCEPT ![Orig(TextEncoderPos)].dtype = dT]
  /\ pos = 0
  /\ skipped = {}
  /\ calls = [s \in Slots |-> NoCall]
  /\ entry = [attrs |-> attrs, heap |-> heap]
  /\ retval = Unbound
  /\ pipeVar = PipelineObj
  /\ modelDir = FALSE
  /\ files = {}
  /\ widgets = NoWidgets
  /\ rng = Unseeded
  /\ invoked = NoInvoke
  /\ original_image = <<>>
  /\ canny_image = <<>>
  /\ output = <<>>
  /\ image_grid = <<>>
  /\ image_grid_np = <<>>
  /\ house_png = <<>>

\* A notebook is opened on a fresh kernel.
InitNotebook ==
  /\ nb \in {"01", "02", "03"}
  /\ pc = 1
  /\ exc = NoExc
  /\ log = <<>>
  /\ kind = [s \in Slots |-> "absent"]
  /\ attrs = InitAttrs(kind)
  /\ heap = InitHeap("eval", "bfloat16")
  /\ pos = 0
  /\ skipped = {}
  /\ calls = [s \in Slots |-> NoCall]
  /\ entry = [attrs |-> attrs, heap |-> heap]
  /\ retval = Unbound
  /\ pipeVar = Unbound
  /\ modelDir \in BOOLEAN
  /\ nb # "02" => modelDir = FALSE
  /\ files = {}
  /\ widgets = NoWidgets
  /\ rng = Unseeded
  /\ invoked = NoInvoke
  /\ original_image = <<>>
  /\ canny_image = <<>>
  /\ output = <<>>
  /\ image_grid = <<>>
  /\ image_grid_np = <<>>
  /\ house_png = <<>>

Init == InitCall \/ InitNotebook

Next == Sweep \/ Cells

Spec == Init /\ [][Next]_vars

\* ---------------------------------------------------------------- claims

\* optimize_pipeline has returned.
Returned == retval # Unbound

\* The slots bound to an nn.Module when optimize_pipeline was entered.
EntryModules == {a \in Slots : kind[a] \in ModuleKinds}

\* Slot a is bound to the result of ipex.optimize applied to the module it
\* held on entry, put in eval mode, with inplace=True.
ReplacedByOptimized(a) ==
  /\ calls[a].made
  /\ calls[a].raised = "none"
  /\ calls[a].arg = entry.attrs[a]
  /\ calls[a].mode = "eval"
  /\ calls[a].inplace
  /\ attrs[a] = calls[a].result
  /\ heap[attrs[a]].optimized

\* C1 as stated: when optimize_pipeline returns, every attribute that held an
\* nn.Module on entry is bound to the result of ipex.optimize applied to it,
\* with dtype = pipeline.text_encoder.dtype.
C1_EveryModuleReplaced ==
  Returned =>
    \A a \in EntryModules :
      /\ ReplacedByOptimized(a)
      /\ TextEncoderUsable
      /\ calls[a].dtype = entry.heap[entry.attrs[TextEncoderPos]].dtype

\* Each ipex.optimize call is made on the module bound to the attribute, in
\* eval mode, in place, with the dtype text_encoder has at that iteration.
C1_CallArguments ==
  \A a \in Slots :
    (calls'[a] # calls[a]) =>
      /\ calls'[a].made
      /\ calls'[a].arg = attrs[a]
      /\ calls'[a].mode = "eval"
      /\ calls'[a].inplace
      /\ calls'[a].dtype = heap[attrs[TextEncoderPos]].dtype

\* When optimize_pipeline returns, a module attribute is either rebound to
\* the optimized module or its processing ended in a swallowed
\* AttributeError, and then it keeps the binding it had on entry.
C1_ReplacedOrSkipped ==
  Returned =>
    \A a \in EntryModules :
      /\ a \notin skipped => ReplacedByOptimized(a)
      /\ a \in skipped => attrs[a] = entry.attrs[a]

\* C1 (amended): when optimize_pipeline returns, every attribute that held an
\* nn.Module on entry and whose processing did not end in a swallowed
\* AttributeError is bound to the result of ipex.optimize applied to that
\* module (in eval mode, inplace=True, dtype as read from
\* pipeline.text_encoder in that iteration); the skipped ones keep their
\* binding.
C1_ModulesNotSkippedReplaced == []C1_ReplacedOrSkipped /\ [][C1_CallArguments]_vars

\* C1 witness: a returned call that rebound one module to a new optimized
\* object and skipped another module.
C1_Witness ==
  /\ Returned
  /\ nb = "call"
  /\ \E a \in EntryModules : a \notin skipped /\ attrs[a] = Wrapped(a)
  /\ \E b \in EntryModules : b \in skipped

\* C2: an AttributeError inside the loop never leaves optimize_pipeline.
C2_NeverRaised == exc.type # "AttributeError"

\* C2: once returned, the loop has gone through all of dir(pipeline) and the
\* value returned is the pipeline.
C2_ReturnsPipeline ==
  Returned => retval = PipelineObj /\ skipped \subseteq {a \in Slots : kind[a] # "absent"}

\* C2: a skip moves the loop on to the next name, with nothing raised, and
\* the loop leaves no name out: it returns only from the end of dir(pipeline).
C2_SkipMovesOn ==
  /\ (skipped' # skipped) =>
        /\ pos' = pos + 1
        /\ exc' = NoExc
        /\ pc' = pc
        /\ \E a \in Slots : a = Dir(kind)[pos] /\ skipped' = skipped \cup {a}
  /\ (pos' # pos) =>
        \/ pos' = pos + 1
        \/ pos = Len(Dir(kind)) + 1 /\ pos' = 0 /\ retval' = PipelineObj

\* C2: in optimize_pipeline an attribute that cannot be read or set
\* (AttributeError) is skipped silently: the error is never raised to the
\* caller, the loop goes on with the next name of dir(pipeline), and the
\* function returns the pipeline.
C2_AttributeErrorSkipped ==
  []C2_NeverRaised /\ []C2_ReturnsPipeline /\ [][C2_SkipMovesOn]_vars

\* C2 witness: a returned call in which the first name was skipped and a
\* later one was still optimized.
C2_Witness ==
  /\ Returned
  /\ nb = "call"
  /\ retval = PipelineObj
  /\ \E a, b \in Slots : a < b /\ a \in skipped /\ b \notin skipped /\ calls[b].made

\* C3 as stated: no failure raised by an external library call is caught: an
\* exception raised by ipex.optimize (or by loading, device transfer,
\* inference, saving) ends the run at that step.
C3_NoExternalFailureCaught ==
  /\ \A a \in Slots :
       (calls[a].made /\ calls[a].raised # "none") =>
          exc = [type |-> calls[a].raised, at |-> "ipex.optimize"]
  /\ exc # NoExc => exc.at \in (ExternalStmts \cup {"ipex.optimize"})

\* The step of the linear script a statement belongs to (0: none of them).
Cat(s) ==
  CASE s = "env_setup" -> 1
    [] s \in {"pip_install", "fetch_notebook_utils"} -> 2
    [] s \in {"from_pretrained", "from_pretrained_export", "from_pretrained_local",
              "controlnet_from_pretrained"} -> 3
    [] s \in {"to_xpu", "compile"} -> 4
    [] s = "infer" -> 5
    [] s \in {"display", "save", "imwrite"} -> 6
    [] OTHER -> 0

PipelineLoads == {"from_pretrained", "from_pretrained_export", "from_pretrained_local"}

Transfers == {"to_xpu", "compile"}

Count(S) == Cardinality({i \in DOMAIN log : log[i] \in S})

\* C4: the steps of a notebook run in the order environment setup, dependency
\* install, model load, device transfer, inference call, display/save of the
\* output, and the inference call comes after the pipeline was loaded and
\* then placed on the device.
C4_LinearOrder ==
  /\ \A i, j \in DOMAIN log :
       (i < j /\ Cat(log[i]) # 0 /\ Cat(log[j]) # 0) => Cat(log[i]) <= Cat(log[j])
  /\ \A j \in DOMAIN log :
       log[j] = "infer" =>
         \E i, k \in 1..(j - 1) : i < k /\ log[i] \in PipelineLoads /\ log[k] \in Transfers
  /\ (Running /\ Stmt = "infer") =>
         \E i, k \in DOMAIN log : i < k /\ log[i] \in PipelineLoads /\ log[k] \in Transfers

\* C4 witness: a complete run that went through all six steps.
C4_Witness ==
  /\ Done
  /\ nb = "02"
  /\ \A c \in 1..6 : \E i \in DOMAIN log : Cat(log[i]) = c

\* C5 as stated: each of the three notebooks installs packages, loads a
\* checkpoint, moves the model to a device and calls the pipeline with a prompt.
C5_AllFourSteps ==
  (Done /\ nb \in {"01", "02", "03"}) =>
    /\ Count({"pip_install"}) >= 1
    /\ Count(PipelineLoads) >= 1
    /\ Count(Transfers) >= 1
    /\ Count({"infer"}) >= 1
    /\ invoked.made

\* C5 (amended): each notebook loads a checkpoint, moves the model to a device
\* and calls the pipeline with a text prompt; the PyTorch and OpenVINO
\* notebooks install packages first, the ControlNet notebook installs nothing.
C5_ThreeStepsInstallInTwo ==
  (Done /\ nb \in {"01", "02", "03"}) =>
    /\ Count(PipelineLoads) >= 1
    /\ Count(Transfers) >= 1
    /\ Count({"infer"}) >= 1
    /\ invoked.made
    /\ nb \in {"01", "02"} => Count({"pip_install"}) >= 1
    /\ nb = "03" => Count({"pip_install"}) = 0

\* C5 witness: a complete run of the ControlNet notebook.
C5_Witness == Done /\ nb = "03" /\ invoked.made

\* C6: in a complete run the pipeline is loaded exactly once and called
\* exactly once; in the OpenVINO notebook, on either branch of the MODEL_DIR
\* check, there is exactly one from_pretrained and exactly one compile.
C6_LoadOnceUseOnce ==
  (Done /\ nb \in {"01", "02", "03"}) =>
    /\ Count(PipelineLoads) = 1
    /\ Count({"infer"}) = 1
    /\ nb = "02" => Count({"compile"}) = 1

\* C6 witness: a complete run of the OpenVINO notebook through the export branch.
C6_Witness == Done /\ nb = "02" /\ Count({"save_pretrained"}) = 1

PngFiles == {"result.png", "house.png"}

\* C7 as stated: every run that completes its inference call (and ends)
\* has written a PNG file.
C7_EveryRunWritesPng ==
  (Done /\ invoked.made) => files \cap PngFiles # {}

\* C7 (amended): a complete run of the OpenVINO notebook has written
\* result.png; a complete run of the ControlNet notebook has called
\* cv2.imwrite for house.png after the inference call, and house.png exists
\* if that call wrote it; the PyTorch notebook writes no file.
C7_PngWhereSaved ==
  /\ Done /\ nb = "02" => "result.png" \in files
  /\ Done /\ nb = "03" =>
        \E i, j \in DOMAIN log : i < j /\ log[i] = "infer" /\ log[j] = "imwrite"
  /\ nb = "03" => ("house.png" \in files <=> house_png # <<>>)
  /\ nb = "01" => files = {}
  /\ files \cap PngFiles # {} => invoked.made

\* C7 witness: a complete run of the OpenVINO notebook with result.png written.
C7_Witness == Done /\ nb = "02" /\ "result.png" \in files

\* C8 as stated: prompt, step count, guidance scale and seed chosen by the
\* user are all passed to the inference call.
C8_AllParametersPassed ==
  invoked.made =>
    /\ invoked.num_inference_steps # Default
    /\ invoked.guidance_scale # Default
    /\ (rng # Unseeded \/ invoked.generator # Default)

\* What is passed, per notebook.
C8_PassedPerNotebook ==
  invoked.made =>
    /\ invoked.guidance_scale = Default
    /\ invoked.generator = Default
    /\ nb = "01" => /\ invoked.prompt = "A cat riding a surfboard on a big wave"
                    /\ invoked.num_inference_steps = Default
                    /\ rng = Unseeded
    /\ nb = "03" => /\ invoked.prompt = "Vivid Watercolor"
                    /\ invoked.num_inference_steps = Default
                    /\ rng = Unseeded
    /\ nb = "02" => /\ invoked.prompt \in Prompts
                    /\ invoked.num_inference_steps # Default
                    /\ rng # Unseeded

\* The OpenVINO call uses the widget values of the moment of the call.
C8_WidgetValuesAtCall ==
  (nb = "02" /\ ~invoked.made /\ invoked'.made) =>
    /\ invoked'.prompt = widgets.text_prompt
    /\ invoked'.num_inference_steps = Passed(widgets.num_steps)
    /\ rng = Seeded(widgets.seed)

\* C8 (amended): every notebook passes its prompt string to the inference
\* call; the OpenVINO notebook also passes the step count, and seeds numpy's
\* global generator just before the call, both with the widget values of the
\* moment of the call; no notebook passes a guidance scale, and the PyTorch
\* and ControlNet notebooks pass no step count and set no seed.
C8_PromptAndOpenVinoSteps == []C8_PassedPerNotebook /\ [][C8_WidgetValuesAtCall]_vars

\* C8 witness: an OpenVINO call made with values the user set.
C8_Witness ==
  /\ nb = "02"
  /\ invoked.made
  /\ invoked.prompt = "user_text"
  /\ invoked.num_inference_steps = Passed(MaxSteps)
  /\ rng = Seeded(MinSeed)

\* C9 as stated: house.png holds, pixel for pixel and channel for channel,
\* the original image, the edge map and the generated image side by side.
C9_GridPanelsMatch ==
  "house.png" \in files => house_png = original_image \o canny_image \o output

\* C10: optimize_pipeline returns the very object it was given, so after
\* pipe = optimize_pipeline(pipe) the variable is bound to the same object.
C10_ReturnsSameObject ==
  /\ Returned => retval = PipelineObj
  /\ Count({"optimize_pipeline"}) >= 1 => (Returned /\ pipeVar = PipelineObj)

\* C10 witness: a returned call that replaced a module and skipped an attribute.
C10_Witness ==
  /\ Count({"optimize_pipeline"}) = 1
  /\ pipeVar = PipelineObj
  /\ skipped # {}
  /\ \E a \in Slots : calls[a].made /\ calls[a].raised = "none"

\* The names of dir(pipeline) the loop has gone past, and those still ahead.
Before(i) == {Dir(kind)[j] : j \in 1..(i - 1)}

After(i) == {Dir(kind)[j] : j \in (i + 1)..Len(Dir(kind))}

\* An exception of ipex.optimize that is not an AttributeError has left
\* optimize_pipeline: nothing was returned, the loop stands at the attribute
\* that raised, the names after it are untouched, and the modules rebound
\* before it are still bound to their optimized versions.
C11_Propagated ==
  exc.at = "ipex.optimize" =>
    /\ exc.type # "AttributeError"
    /\ ~Returned
    /\ Count({"optimize_pipeline"}) = 0
    /\ ~invoked.made
    /\ pos \in 1..Len(Dir(kind))
    /\ calls[Cur].made
    /\ calls[Cur].raised = exc.type
    /\ attrs[Cur] = entry.attrs[Cur]
    /\ \A b \in After(pos) :
         /\ ~calls[b].made
         /\ b \notin skipped
         /\ attrs[b] = entry.attrs[b]
         /\ kind[b] \in ModuleKinds => heap[attrs[b]] = entry.heap[attrs[b]]
    /\ \A a \in Before(pos) :
         (kind[a] = "module" /\ a \notin skipped) => ReplacedByOptimized(a)

\* Once an exception has left, no statement runs any more.
C11_Stopped == (exc # NoExc) => UNCHANGED vars

\* C11: an exception other than AttributeError raised while an attribute is
\* processed (by ipex.optimize) propagates to the caller, the sweep stops at
\* that attribute, and the attributes replaced before it stay replaced.
C11_NoRollback == []C11_Propagated /\ [][C11_Stopped]_vars

\* C11 witness: ipex.optimize raised at a later attribute after an earlier
\* one had been rebound to a new optimized object.
C11_Witness ==
  /\ exc.at = "ipex.optimize"
  /\ nb = "call"
  /\ \E a \in Before(pos) : kind[a] = "module" /\ attrs[a] = Wrapped(a)

\* C12: an attribute whose processing ended in the swallowed
\* AttributeError is bound to the same object as on entry, and that object is
\* in the state it had on entry (same training/eval mode).
C12_SkippedUntouched ==
  \A a \in skipped :
    /\ attrs[a] = entry.attrs[a]
    /\ kind[a] \in ModuleKinds => heap[attrs[a]] = entry.heap[attrs[a]]

\* What the code does leave of a skipped attribute: its binding; a skipped
\* module has had .eval() run on it, so it is in eval mode whatever its mode
\* on entry, and it has been optimized in place exactly when the
\* ipex.optimize call succeeded and setattr was what raised.
C12_SkippedKeepsBinding ==
  \A a \in skipped :
    /\ attrs[a] = entry.attrs[a]
    /\ kind[a] \in ModuleKinds =>
         /\ heap[attrs[a]].mode = "eval"
         /\ heap[attrs[a]].optimized <=> (calls[a].made /\ calls[a].raised = "none")
         /\ ~calls[a].made => heap[attrs[a]].dtype = entry.heap[attrs[a]].dtype

\* A returned call that skipped a module which was in training mode on entry.
C12_SkippedModuleChanged ==
  /\ Returned
  /\ \E a \in skipped :
       /\ kind[a] \in ModuleKinds
       /\ entry.heap[attrs[a]].mode = "train"
       /\ heap[attrs[a]].mode = "eval"

\* optimize_pipeline has been entered (and may have returned).
Entered == pos >= 1 \/ Returned

\* C13: on a pipeline without a usable text_encoder (absent, unreadable, or
\* None so that .dtype raises AttributeError) optimize_pipeline never calls
\* ipex.optimize, rebinds no attribute, raises nothing, and goes on until it
\* returns the pipeline, whatever other module attributes there are.
C13_NoTextEncoderNoOptimize ==
  (Entered /\ ~TextEncoderUsable) =>
    /\ \A a \in Slots : ~calls[a].made
    /\ attrs = entry.attrs
    /\ \A o \in ObjIds : ~heap[o].optimized
    /\ exc = NoExc
    /\ Returned => retval = PipelineObj
    /\ ~Returned => ENABLED Sweep

\* C13 witness: a call that returned on a pipeline whose text_encoder is
\* None and which has module attributes before and after it.
C13_Witness ==
  /\ Returned
  /\ kind[TextEncoderPos] = "value"
  /\ \E a, b \in EntryModules : a < TextEncoderPos /\ TextEncoderPos < b
  /\ EntryModules \subseteq skipped

\* The dtype text_encoder had when optimize_pipeline was entered.
EntryDtype == entry.heap[entry.attrs[TextEncoderPos]].dtype

\* C14: within one call of optimize_pipeline every ipex.optimize call gets
\* the same dtype, the one text_encoder had on entry, also at the
\* iterations that read it from the replaced text_encoder.
C14_OneDtype ==
  \A a \in Slots : calls[a].made => calls[a].dtype = EntryDtype

\* C14 witness: text_encoder was replaced by its optimized version, and a
\* module swept after it, which had another dtype on entry, was optimized
\* with the entry dtype of text_encoder.
C14_Witness ==
  /\ Returned
  /\ attrs[TextEncoderPos] = Wrapped(TextEncoderPos)
  /\ \E b \in Slots :
       /\ b > TextEncoderPos
       /\ calls[b].made
       /\ calls[b].raised = "none"
       /\ entry.heap[entry.attrs[b]].dtype # EntryDtype
       /\ calls[b].dtype = EntryDtype

\* Every attribute that is not a module is bound as it was on entry.
C15_NonModulesKept ==
  Entered => \A a \in Slots : kind[a] \notin ModuleKinds => attrs[a] = entry.attrs[a]

\* No step of optimize_pipeline changes the attribute names of the pipeline.
C15_NamesKept ==
  (Running /\ Stmt = "optimize_pipeline") => kind' = kind /\ Dir(kind') = Dir(kind)

\* C15: optimize_pipeline changes only module attributes: an attribute whose
\* value is not an nn.Module stays bound to the same value, and dir(pipeline)
\* is the same after the call as before.
C15_OnlyModulesChange == []C15_NonModulesKept /\ [][C15_NamesKept]_vars

\* C15 witness: a call that returned after replacing a module, on a pipeline
\* that also has a non-module attribute and an unreadable one.
C15_Witness ==
  /\ Returned
  /\ \E a, b, c \in Slots :
       /\ kind[a] = "value"
       /\ kind[b] = "unreadable"
       /\ attrs[c] # entry.attrs[c]

====
